---- MODULE Spec2Model ----
(***************************************************************************)
(* gha-enforce-sha: `check` reports, and `enforce` rewrites, every step of *)
(* a workflow/action file whose `uses:` reference is not pinned to a full  *)
(* 40-character commit id.                                                 *)
(*                                                                         *)
(* Text is modelled as a sequence of one-character strings, a file as the  *)
(* list of its lines (each line keeps its terminator), the remote          *)
(* repositories as fixed sets of tags, and one run of `main` as a small    *)
(* state machine (load, scan, group, resolve, write, return).              *)
(***************************************************************************)
EXTENDS Integers, Sequences, FiniteSets, TLC

VARIABLES
    disk,                \* path -> the document stored under that path
    dirExists,           \* whether .github/workflows is a directory
    runNo,               \* number of the current run of main (1-based)
    command,             \* args.command: "check" or "enforce"
    filepaths,           \* args.filepaths
    pc,                  \* position of the run inside main
    content_map,         \* _load_yamls: ordered <<path, lines>> pairs
    reps_map,            \* _enforce_gha_shas: ordered <<path, reps>> pairs
    repo_partial_tags,   \* ordered <<action path, list of versions>> pairs
    repo_resolved_tags,  \* resolved <<action path, version, full tag, sha>>
    mirror,              \* tags of the temporary bare repository
    resolved_tags,       \* _resolve_tags: entries of the current action
    fileIdx,             \* how many files the current loop has handled
    actIdx,              \* how many action paths are resolved
    tagIdx,              \* _resolve_tags: how many partial tags are done
    success,             \* _check_gha_shas: no occurrence printed so far
    stdout,              \* lines printed to standard output
    stderr,              \* lines printed to standard error
    outcome,             \* how the run ended
    retcode,             \* value returned by main
    origDisk,            \* the disk when the current run started
    opened,              \* paths opened for writing in the current run
    fetches,             \* <<action path, version>> of every tag fetch
    inits,               \* action paths a bare repository was created for
    found,               \* occurrences the scanner yielded in this run
    prev                 \* summary of the previous run

vars == <<disk, dirExists, runNo, command, filepaths, pc, content_map,
          reps_map, repo_partial_tags, repo_resolved_tags, mirror,
          resolved_tags, fileIdx, actIdx, tagIdx, success, stdout, stderr, outcome, retcode, origDisk,
          opened, fetches, inits, found, prev>>

(***************************************************************************)
(* Bounds of the model.                                                    *)
(***************************************************************************)
MaxRuns == 2

(***************************************************************************)
(* Text helpers.                                                           *)
(***************************************************************************)
Rep(c, n) == [i \in 1..n |-> c]

Min(S) == CHOOSE x \in S : \A y \in S : x <= y

\* str.startswith
StartsWith(s, p) == Len(s) >= Len(p) /\ SubSeq(s, 1, Len(p)) = p

\* s[n:] for 0 <= n
Drop(s, n) == SubSeq(s, n + 1, Len(s))

\* 1-based index of the first c in s, Len(s)+1 when there is none
IndexOf(s, c) == Min({i \in 1..Len(s) : s[i] = c} \cup {Len(s) + 1})

RECURSIVE RStrip(_, _)
\* str.rstrip(c)
RStrip(s, c) ==
    IF s # <<>> /\ s[Len(s)] = c THEN RStrip(SubSeq(s, 1, Len(s) - 1), c) ELSE s

RECURSIVE Flatten(_)
Flatten(ss) == IF ss = <<>> THEN <<>> ELSE Head(ss) \o Flatten(Tail(ss))

RECURSIVE Split(_, _, _)
\* str.split(sep, maxsplit)
Split(s, sep, maxsplit) ==
    LET i == IndexOf(s, sep)
    IN  IF maxsplit = 0 \/ i > Len(s) THEN <<s>>
        ELSE <<SubSeq(s, 1, i - 1)>> \o Split(Drop(s, i), sep, maxsplit - 1)

RECURSIVE Join(_, _)
\* sep.join(parts)
Join(sep, parts) ==
    IF parts = <<>> THEN <<>>
    ELSE IF Len(parts) = 1 THEN parts[1]
    ELSE parts[1] \o <<sep>> \o Join(sep, Tail(parts))

\* parts[:n]
Take(parts, n) == SubSeq(parts, 1, IF Len(parts) < n THEN Len(parts) ELSE n)

Digits == <<"0", "1", "2", "3", "4", "5", "6", "7", "8", "9">>
IsDigit(c) == \E i \in 1..10 : Digits[i] = c
DigitVal(c) == (CHOOSE i \in 1..10 : Digits[i] = c) - 1

hexdigits == Digits \o <<"a", "b", "c", "d", "e", "f", "A", "B", "C", "D", "E", "F">>

\* str.lower on one character
Lower(c) ==
    CASE c = "A" -> "a" [] c = "B" -> "b" [] c = "C" -> "c" [] c = "D" -> "d"
      [] c = "E" -> "e" [] c = "F" -> "f" [] OTHER -> c

\* The shortest abbreviation of an object id git accepts
MinAbbrev == 4

\* ASCII order of the characters that occur in tag names
TagAlphabet == <<"-", ".">> \o Digits \o <<"a", "b", "c", "r", "v">>
Ord(c) == CHOOSE i \in 1..Len(TagAlphabet) : TagAlphabet[i] = c

(***************************************************************************)
(* git: the remote repositories and the commands git.py runs.              *)
(***************************************************************************)
NoVersion == [some |-> FALSE, text |-> <<>>]
Version(t) == [some |-> TRUE, text |-> t]

v1 == <<"v", "1">>
v2 == <<"v", "2">>
v3 == <<"v", "3">>
v9 == <<"v", "9">>
v1_0 == <<"v", "1", ".", "0">>
v1_1 == <<"v", "1", ".", "1">>
v3_2 == <<"v", "3", ".", "2">>
v0_1_0 == <<"v", "0", ".", "1", ".", "0">>
v1_0_0 == <<"v", "1", ".", "0", ".", "0">>
v1_1_0 == <<"v", "1", ".", "1", ".", "0">>
v1_1_1 == <<"v", "1", ".", "1", ".", "1">>
v2_0_0 == <<"v", "2", ".", "0", ".", "0">>
v3_2_0 == <<"v", "3", ".", "2", ".", "0">>
v3_10_0 == <<"v", "3", ".", "1", "0", ".", "0">>

_git_sha_length == 40

\* A commit id as `git rev-parse` prints it
Sha(c) == Rep(c, _git_sha_length)

ActionA == <<"o", "/", "a">>
ActionANested == <<"o", "/", "a", "/", "n">>
ActionB == <<"o", "/", "b">>

GitHub == <<"https://github.com/">>

\* A lightweight tag points at its commit; an annotated tag points at a tag
\* object that in turn names the commit
Lightweight(name, commit) == [name |-> name, sha |-> commit, commit |-> commit]
Annotated(name, object, commit) == [name |-> name, sha |-> object, commit |-> commit]

\* The tags of the repositories behind the two remote addresses
Remotes(url) ==
    IF url = GitHub \o ActionA
    THEN {Lightweight(v1_0_0, Sha("1")), Lightweight(v1_1_0, Sha("2")),
          Lightweight(v1_1_1, Sha("3")), Lightweight(v2_0_0, Sha("4"))}
    ELSE IF url = GitHub \o ActionB
    THEN {Lightweight(v0_1_0, Sha("a")), Lightweight(v3_2_0, Sha("b")),
          Lightweight(v3_10_0, Sha("c")), Annotated(v3, Sha("d"), Sha("e"))}
    ELSE {}

\* Whether a repository is served at the address
Reachable(url) == Remotes(url) # {}

_repo_url_from_action(path) == GitHub \o Join("/", Take(Split(path, "/", 2), 2))

\* git fetch --tags origin refs/tags/<partial>*:refs/tags/<partial>*
\* (--tags adds every tag of the remote to the tags the pattern names)
FetchTags(local, url, partial_tag) ==
    local \cup {t \in Remotes(url) : StartsWith(t.name, partial_tag)}
          \cup Remotes(url)

\* The ids of the objects the fetched tags brought into the repository
Objects(local) == {t.sha : t \in local} \cup {t.commit : t \in local}

\* The objects an abbreviated (or full, in either case) hexadecimal id names
Abbreviated(local, name) ==
    IF /\ Len(name) >= MinAbbrev
       /\ Len(name) <= _git_sha_length
       /\ \A i \in 1..Len(name) : \E k \in 1..Len(hexdigits) : hexdigits[k] = name[i]
    THEN {o \in Objects(local) : StartsWith(o, [i \in 1..Len(name) |-> Lower(name[i])])}
    ELSE {}

\* git rev-parse <name>: (return code, standard output).  The name of a tag
\* gives the id of the object the tag points at, an unambiguous object id
\* gives that id, anything else is an error
RevParse(local, name) ==
    IF \E t \in local : t.name = name
    THEN <<0, (CHOOSE t \in local : t.name = name).sha \o <<"\n">>>>
    ELSE IF Cardinality(Abbreviated(local, name)) = 1
    THEN <<0, (CHOOSE o \in Abbreviated(local, name) : TRUE) \o <<"\n">>>>
    ELSE <<128, name \o <<"\n">>>>

\* Length of the run of digits s starts with
RECURSIVE DigitRun(_)
DigitRun(s) == IF s # <<>> /\ IsDigit(Head(s)) THEN 1 + DigitRun(Tail(s)) ELSE 0

RECURSIVE NumVal(_, _)
\* Value of the first n (decimal) characters of s
NumVal(s, n) == IF n = 0 THEN 0 ELSE NumVal(s, n - 1) * 10 + DigitVal(s[n])

RECURSIVE VersionCmp(_, _)
\* version:refname order: runs of digits compare as numbers
VersionCmp(a, b) ==
    IF a = <<>> /\ b = <<>> THEN 0
    ELSE IF a = <<>> THEN -1
    ELSE IF b = <<>> THEN 1
    ELSE IF IsDigit(Head(a)) /\ IsDigit(Head(b))
    THEN LET na == DigitRun(a)
             nb == DigitRun(b)
         IN  IF NumVal(a, na) < NumVal(b, nb) THEN -1
             ELSE IF NumVal(a, na) > NumVal(b, nb) THEN 1
             ELSE VersionCmp(Drop(a, na), Drop(b, nb))
    ELSE IF Head(a) = Head(b) THEN VersionCmp(Tail(a), Tail(b))
    ELSE IF Ord(Head(a)) < Ord(Head(b)) THEN -1 ELSE 1

RECURSIVE SortVersionDescending(_)
\* --sort=-version:refname
SortVersionDescending(names) ==
    IF names = {} THEN <<>>
    ELSE LET m == CHOOSE t \in names : \A u \in names : VersionCmp(u, t) <= 0
         IN  <<m>> \o SortVersionDescending(names \ {m})

\* git tag --list --sort=-version:refname <partial>*: standard output
TagList(local, partial_tag) ==
    Flatten([i \in 1..Cardinality({t \in local : StartsWith(t.name, partial_tag)}) |->
        SortVersionDescending(
            {t.name : t \in {u \in local : StartsWith(u.name, partial_tag)}})[i]
        \o <<"\n">>])

NotFound(partial_tag) == <<"could not find any tag matching ">> \o partial_tag
GitFailed == <<"failed to run git command: ">>

ResolveTag_nofail(local, version) ==
    LET partial_tag == IF version.some THEN version.text ELSE <<>>
        rev == RevParse(local, partial_tag)
        out == RStrip(TagList(local, partial_tag), "\n")
        tag == Split(out, "\n", -1)[1]
    IN  IF partial_tag # <<>> /\ rev[1] = 0
        THEN [ok |-> TRUE, err |-> <<>>, tag |-> partial_tag,
              sha |-> RStrip(rev[2], "\n")]
        ELSE [ok |-> TRUE, err |-> <<>>, tag |-> tag,
              sha |-> RStrip(RevParse(local, tag)[2], "\n")]

\* resolve_tag once its fetch has succeeded: the exact tag when rev-parse
\* knows the name, else the highest tag that starts with it
ResolveTag(local, version) ==
    LET partial_tag == IF version.some THEN version.text ELSE <<>>
        rev == RevParse(local, partial_tag)
        out == RStrip(TagList(local, partial_tag), "\n")
        tag == Split(out, "\n", -1)[1]
    IN  IF partial_tag # <<>> /\ rev[1] = 0
        THEN [ok |-> TRUE, err |-> <<>>, tag |-> partial_tag,
              sha |-> RStrip(rev[2], "\n")]
        ELSE IF out = <<>>
        THEN [ok |-> FALSE, err |-> NotFound(partial_tag), tag |-> <<>>, sha |-> <<>>]
        ELSE [ok |-> TRUE, err |-> <<>>, tag |-> tag,
              sha |-> RStrip(RevParse(local, tag)[2], "\n")]

(***************************************************************************)
(* Documents.  A document is its text lines plus the job/step hierarchy    *)
(* the YAML loader finds in them: each step is the 0-based number of the   *)
(* line its mapping starts on, and the loader reads key, value and column  *)
(* from that line's text.                                                  *)
(***************************************************************************)
LF == <<"\n">>
CRLF == <<"\r", "\n">>

Ref(path, version) == path \o <<"@">> \o version

UsesKey == <<"u", "s", "e", "s">>

\* "<indent>- uses: <ref><terminator>"
UsesLine(indent, ref, term) ==
    Rep(" ", indent) \o <<"-", " ">> \o UsesKey \o <<":", " ">> \o ref \o term

\* "<indent>- {uses: <ref>}<terminator>" (a flow-style step)
FlowLine(indent, ref, term) ==
    Rep(" ", indent) \o <<"-", " ", "{">> \o UsesKey \o <<":", " ">> \o ref
        \o <<"}">> \o term

\* "<indent>- run: x<terminator>" (a step without a reference)
RunLine(indent, term) ==
    Rep(" ", indent) \o <<"-", " ", "r", "u", "n", ":", " ", "x">> \o term

Header(shape, job, term) ==
    <<<<shape, ":">> \o term, <<"  ", job, ":">> \o term,
      <<"    ", "steps", ":">> \o term>>

Job(name, steps) == [name |-> name, hasSteps |-> TRUE, steps |-> steps]

Local == <<".", "/", "l", "@", "v", "1">>
Absolute == <<"/", "l">>
Docker == <<"d", "o", "c", "k", "e", "r", ":", "/", "/", "i", ":", "t">>
DockerAt == <<"d", "o", "c", "k", "e", "r", ":", "/", "/", "i", "@", "v", "1">>

\* VALID_FILES: every step is pinned, local, a container or has no reference
DocPinned ==
    [shape |-> "jobs",
     jobs |-> <<Job("just-checkout", <<3, 4, 5, 6, 7, 8>>)>>,
     lines |-> Header("jobs", "just-checkout", LF)
        \o <<UsesLine(8, Ref(ActionA, Sha("3")), LF), RunLine(8, LF),
             UsesLine(8, Local, LF), UsesLine(8, Absolute, LF),
             UsesLine(8, Docker, LF), UsesLine(8, DockerAt, LF)>>]

\* a file whose lines end in CRLF, with references to three action paths
DocCrlf ==
    [shape |-> "jobs",
     jobs |-> <<Job("crlf", <<3, 4, 5>>)>>,
     lines |-> Header("jobs", "crlf", CRLF)
        \o <<UsesLine(8, Ref(ActionA, v1), CRLF),
             UsesLine(8, Ref(ActionANested, v1_0), CRLF),
             UsesLine(8, Ref(ActionB, v3_2), CRLF)>>]

\* VALID_FILES["single_job_no_steps"], followed by a job that has steps
DocNoSteps ==
    [shape |-> "jobs",
     jobs |-> <<[name |-> "no-steps", hasSteps |-> FALSE, steps |-> <<>>],
                Job("second", <<4>>)>>,
     lines |-> <<<<"jobs", ":">> \o LF, <<"  ", "no-steps", ":">> \o LF,
                 <<"    ", "uses", ":", " ">> \o Ref(ActionA, v1) \o LF,
                 <<"  ", "second", ":">> \o LF,
                 UsesLine(8, Ref(ActionA, v1), LF)>>]

\* test_errors_on_non_workflow_yaml: "not-a-workflow: 1"
DocNotWorkflow ==
    [shape |-> "not-a-workflow",
     jobs |-> <<>>,
     lines |-> <<<<"not-a-workflow", ":", " ", "1">>>>]

\* test_enforcing first.yaml: tags, partial tags, a nested action, no version
DocFirst ==
    [shape |-> "jobs",
     jobs |-> <<Job("first", <<3, 4, 5, 6, 7>>)>>,
     lines |-> Header("jobs", "first", LF)
        \o <<UsesLine(12, Ref(ActionA, v1), LF),
             UsesLine(12, Ref(ActionA, v1_0), LF),
             UsesLine(12, Ref(ActionANested, v1_1_1), LF),
             UsesLine(12, ActionB, LF),
             UsesLine(12, Ref(ActionB, v3), LF)>>]

\* test_enforcing second.yaml: another indentation, a pair first.yaml has
\* too, and a version that abbreviates the commit id of v1.1.1
DocSecond ==
    [shape |-> "jobs",
     jobs |-> <<Job("first", <<3, 4, 5, 6>>)>>,
     lines |-> Header("jobs", "first", LF)
        \o <<UsesLine(4, Ref(ActionA, v2), LF),
             UsesLine(4, Ref(ActionB, v3_2), LF),
             UsesLine(4, Ref(ActionA, v1), LF),
             UsesLine(4, Ref(ActionA, Rep("3", 7)), LF)>>]

\* test_enforcing_errors_on_bad_tag: no tag starts with v9
DocBadTag ==
    [shape |-> "jobs",
     jobs |-> <<Job("job-bad-version", <<3>>)>>,
     lines |-> Header("jobs", "job-bad-version", LF)
        \o <<UsesLine(8, Ref(ActionA, v9), LF)>>]

\* versions that are nearly, but not, a full lowercase commit id
DocHex ==
    [shape |-> "jobs",
     jobs |-> <<Job("hex", <<3, 4, 5, 6, 7>>)>>,
     lines |-> Header("jobs", "hex", LF)
        \o <<UsesLine(8, Ref(ActionA, Rep("A", _git_sha_length)), LF),
             UsesLine(8, Ref(ActionA, Rep("a", _git_sha_length - 1)), LF),
             UsesLine(8, Ref(ActionA, Rep("a", _git_sha_length + 1)), LF),
             UsesLine(8, Ref(ActionA, Rep("a", _git_sha_length - 1) \o <<"g">>), LF),
             UsesLine(8, Ref(ActionA, <<>>), LF)>>]

\* an action file (keyed by runs) whose last line has no terminator
DocAction ==
    [shape |-> "runs",
     jobs |-> <<Job("using", <<3, 4>>)>>,
     lines |-> Header("runs", "using", LF)
        \o <<UsesLine(8, Ref(ActionA, v1_1), LF),
             UsesLine(8, Ref(ActionB, v3_2), <<>>)>>]

\* a step written as a flow mapping
DocFlow ==
    [shape |-> "jobs",
     jobs |-> <<Job("flow", <<3>>)>>,
     lines |-> Header("jobs", "flow", LF)
        \o <<FlowLine(8, Ref(ActionA, v1), LF)>>]

Docs == {DocPinned, DocCrlf, DocNoSteps, DocNotWorkflow, DocFirst, DocSecond,
         DocBadTag, DocHex, DocAction, DocFlow}

WorkflowDir == ".github/workflows"
FileA == ".github/workflows/a.yaml"
FileB == ".github/workflows/b.yml"
Missing == "missing.yaml"

\* os.listdir(".github/workflows")
DirListing == <<"a.yaml", "b.yml", "notes.txt">>

\* os.path.splitext(path)[1]
Ext(file) ==
    CASE file = "a.yaml" -> ".yaml" [] file = "b.yml" -> ".yml"
      [] file = "notes.txt" -> ".txt" [] OTHER -> ""

\* os.path.join(".github/workflows", file)
PathJoin(dir, file) ==
    CASE file = "a.yaml" -> FileA [] file = "b.yml" -> FileB [] OTHER -> file

_is_yaml(path) == Ext(path) \in {".yaml", ".yml"}

\* The files a run can name and that exist
Paths == {FileA, FileB}

(***************************************************************************)
(* Reading and parsing.                                                    *)
(***************************************************************************)
\* open(path).read() in text mode: "\r\n" becomes "\n"
TranslateNewlines(line) ==
    IF Len(line) >= 2 /\ SubSeq(line, Len(line) - 1, Len(line)) = CRLF
    THEN SubSeq(line, 1, Len(line) - 2) \o LF
    ELSE line

ReadText(doc) ==
    [doc EXCEPT !.lines = [i \in 1..Len(doc.lines) |-> TranslateNewlines(doc.lines[i])]]

\* The loader's view of a step line: the text up to a comment (" #") and the
\* terminator, the key and plain-scalar value of its first entry, the
\* 0-based column of that value, and whether a flow mapping it opens is closed
YamlStep(line) ==
    LET body == RStrip(line, "\n")
        hash == Min({i \in 1..Len(body) :
                        body[i] = "#" /\ (i = 1 \/ body[i - 1] = " ")}
                    \cup {Len(body) + 1})
        code == RStrip(SubSeq(body, 1, hash - 1), " ")
        dash == IndexOf(code, "-")
        flow == Len(code) >= dash + 2 /\ code[dash + 2] = "{"
        keyStart == dash + 2 + (IF flow THEN 1 ELSE 0)
        colon == keyStart - 1 + IndexOf(Drop(code, keyStart - 1), ":")
        valStart == Min({i \in (colon + 1)..Len(code) : code[i] # " "}
                        \cup {Len(code) + 1})
        closed == code[Len(code)] = "}"
    IN  [ok |-> flow => closed,
         key |-> SubSeq(code, keyStart, colon - 1),
         value |-> IF flow /\ closed
                   THEN RStrip(SubSeq(code, valStart, Len(code) - 1), " ")
                   ELSE SubSeq(code, valStart, Len(code)),
         col |-> valStart - 1]

\* yaml.load(content): the steps of every job, or a parser error
YamlLoad(doc) ==
    [ok |-> \A j \in 1..Len(doc.jobs) : \A i \in 1..Len(doc.jobs[j].steps) :
                YamlStep(doc.lines[doc.jobs[j].steps[i] + 1]).ok,
     shape |-> doc.shape,
     jobs |-> [j \in 1..Len(doc.jobs) |->
        [name |-> doc.jobs[j].name,
         hasSteps |-> doc.jobs[j].hasSteps,
         steps |-> [i \in 1..Len(doc.jobs[j].steps) |->
            LET l == doc.jobs[j].steps[i]
                y == YamlStep(doc.lines[l + 1])
            IN  [hasUses |-> y.key = UsesKey, uses |-> y.value,
                 lc |-> [line |-> l, col |-> y.col]]]]]]

(***************************************************************************)
(* main.py: references, the scanner and the formatting of results.         *)
(***************************************************************************)
_ACTION_VERSION_SEP == "@"

_hex_digits_anycase == {hexdigits[i] : i \in 1..Len(hexdigits)}

_hex_digits == {Lower(hexdigits[i]) : i \in 1..Len(hexdigits)}

_is_complete_git_sha(ref) ==
    Len(ref) = _git_sha_length /\ \A i \in 1..Len(ref) : ref[i] \in _hex_digits

_is_local(workflow_reference) ==
    StartsWith(workflow_reference, <<".">>) \/ StartsWith(workflow_reference, <<"/">>)

_is_docker(workflow_reference) ==
    StartsWith(workflow_reference, <<"d", "o", "c", "k", "e", "r", ":", "/", "/">>)

\* ActionVersion.parse
ActionVersionParse(raw_action) ==
    LET parts == Split(raw_action, _ACTION_VERSION_SEP, 1)
    IN  IF Len(parts) = 1
        THEN [path |-> parts[1], version |-> NoVersion]
        ELSE [path |-> parts[1], version |-> Version(parts[2])]

\* ActionVersion.to_str
ActionVersionToStr(av) ==
    IF av.version.some
    THEN av.path \o <<_ACTION_VERSION_SEP>> \o av.version.text
    ELSE av.path

\* _parse_action: <<>> for None, else a one-element sequence
_parse_action(step) ==
    IF ~step.hasUses THEN <<>>
    ELSE IF _is_local(step.uses) \/ _is_docker(step.uses) THEN <<>>
    ELSE <<ActionVersionParse(step.uses)>>

\* The occurrences one step yields (none or one)
StepReps(workflow_path, job, i) ==
    LET parsed == _parse_action(job.steps[i])
    IN  IF parsed = <<>> THEN <<>>
        ELSE IF ~parsed[1].version.some
                \/ ~_is_complete_git_sha(parsed[1].version.text)
        THEN <<[path |-> workflow_path, job_name |-> job.name,
                action_version |-> parsed[1], step_index |-> i - 1,
                location |-> job.steps[i].lc]>>
        ELSE <<>>

NotWorkflow(workflow_path) ==
    <<workflow_path, " does not look like a workflow or action">>

\* _find_missing_shas, run to the end of its generator
_find_missing_shas(workflow_path, content) ==
    IF content.shape \notin {"jobs", "runs"}
    THEN [ok |-> FALSE, err |-> NotWorkflow(workflow_path), reps |-> <<>>]
    ELSE [ok |-> TRUE, err |-> <<>>,
          reps |-> Flatten([j \in 1..Len(content.jobs) |->
              IF ~content.jobs[j].hasSteps THEN <<>>
              ELSE Flatten([i \in 1..Len(content.jobs[j].steps) |->
                      StepReps(workflow_path, content.jobs[j], i)])])]

RECURSIVE IntToStr(_)
\* str(n) for n >= 0
IntToStr(n) ==
    IF n < 10 THEN <<Digits[n + 1]>>
    ELSE IntToStr(n \div 10) \o <<Digits[(n % 10) + 1]>>

CheckLine_zero_based(rep) ==
    <<"in workflow file ", rep.path, ": in job ", rep.job_name, ": in step #">>
        \o IntToStr(rep.step_index) \o <<": ">>
        \o ActionVersionToStr(rep.action_version)

\* The line _check_gha_shas prints for one occurrence
CheckLine(rep) ==
    <<"in workflow file ", rep.path, ": in job ", rep.job_name, ": in step #">>
        \o IntToStr(rep.step_index + 1) \o <<": ">>
        \o ActionVersionToStr(rep.action_version)

\* The line _enforce_gha_shas writes in place of an occurrence's line
NewLine(orig_line, rep, full_tag, sha) ==
    SubSeq(orig_line, 1, rep.location.col)
        \o ActionVersionToStr([path |-> rep.action_version.path,
                               version |-> Version(sha)])
        \o <<" ", " ", "#", " ">> \o full_tag
        \o <<orig_line[Len(orig_line)]>>

\* The pair repo_resolved_tags holds for an occurrence
Lookup(resolved, rep) ==
    CHOOSE e \in resolved : /\ e.action = rep.action_version.path
                            /\ e.version = rep.action_version.version

RECURSIVE Rewrite(_, _, _)
\* orig_lines after the loop over the occurrences of one file
Rewrite(orig_lines, reps, resolved) ==
    IF reps = <<>> THEN orig_lines
    ELSE LET rep == Head(reps)
             e == Lookup(resolved, rep)
             l == rep.location.line + 1
         IN  Rewrite([orig_lines EXCEPT
                        ![l] = NewLine(orig_lines[l], rep, e.tag, e.sha)],
                     Tail(reps), resolved)

EnforceResult_postfix(reps) == TRUE

\* The value _enforce_gha_shas returns
EnforceResult(reps) == \A i \in 1..Len(reps) : Len(reps[i][2]) = 0

RECURSIVE Group(_, _)
\* repo_partial_tags after appending the versions of reps to groups
Group(groups, reps) ==
    IF reps = <<>> THEN groups
    ELSE LET av == Head(reps).action_version
             at == {k \in 1..Len(groups) : groups[k][1] = av.path}
         IN  Group(IF at = {}
                   THEN Append(groups, <<av.path, <<av.version>>>>)
                   ELSE [groups EXCEPT ![Min(at)][2] = Append(@, av.version)],
                   Tail(reps))

(***************************************************************************)
(* errors.py and the exception handler of main.                            *)
(***************************************************************************)
\* log_error: (return code, message)
log_error(kind, msg) ==
    IF kind = "UserError" THEN <<1, <<"Error: ">> \o msg>>
    ELSE IF kind = "KeyboardInterrupt" THEN <<130, <<"Interrupted (^C)">>>>
    ELSE <<2, <<"Fatal: unexpected error: ">> \o msg
               \o <<"Please report this bug with the following traceback:",
                    "traceback">>>>

\* isinstance(exc, Exception): KeyboardInterrupt derives from BaseException
IsException(kind) == kind # "KeyboardInterrupt"

(***************************************************************************)
(* One run of main, and runs in succession on the same files.              *)
(***************************************************************************)
Commands == {"check", "enforce"}

\* The argument lists a run is started with
Argvs == {<<>>, <<FileA>>, <<FileA, FileB>>, <<Missing>>}

\* The files a run starts from: any document under the first path, one of a
\* few under the second, and a fixed document under a path the run never reads
Disks(argv) ==
    {d \in [Paths -> Docs] :
        /\ d[FileB] \in {DocPinned, DocSecond, DocBadTag, DocNotWorkflow}
        /\ argv \in {<<FileA>>, <<Missing>>} => d[FileB] = DocPinned
        /\ argv = <<Missing>> => d[FileA] = DocPinned}

NoDirectory ==
    <<"cannot list paths in '", WorkflowDir,
      "': it doesn't exist or isn't a directory">>

\* _iter_workflows
_iter_workflows ==
    [i \in 1..Len(SelectSeq(DirListing, _is_yaml)) |->
        PathJoin(WorkflowDir, SelectSeq(DirListing, _is_yaml)[i])]

RECURSIVE LoadYamls(_, _, _)
\* content_map after reading paths in order (a dict keeps a key's first place)
LoadYamls(map, paths, files) ==
    IF paths = <<>> THEN map
    ELSE LET path == Head(paths)
             at == {k \in 1..Len(map) : map[k][1] = path}
             entry == <<path, ReadText(files[path])>>
         IN  LoadYamls(IF at = {} THEN Append(map, entry)
                       ELSE [map EXCEPT ![Min(at)] = entry],
                       Tail(paths), files)

\* content_map[path]
ContentOf(path) ==
    (CHOOSE k \in 1..Len(content_map) : content_map[k][1] = path)

\* The exception handler of main: an Exception is logged and turned into a
\* return code, anything else leaves main as an exception
Raise(kind, msg) ==
    /\ pc' = "done"
    /\ outcome' = kind
    /\ IF IsException(kind)
       THEN /\ retcode' = <<log_error(kind, msg)[1]>>
            /\ stderr' = Append(stderr, log_error(kind, msg)[2])
       ELSE /\ retcode' = <<>>
            /\ stderr' = stderr

\* return 0 if _run(args) else 1
Return(ok) ==
    /\ pc' = "done"
    /\ outcome' = "returned"
    /\ retcode' = <<IF ok THEN 0 ELSE 1>>
    /\ stderr' = stderr

Init ==
    /\ filepaths \in Argvs
    /\ disk \in Disks(filepaths)
    /\ dirExists \in (IF filepaths = <<>> THEN BOOLEAN ELSE {TRUE})
    /\ command \in Commands
    /\ runNo = 1
    /\ pc = "load"
    /\ content_map = <<>>
    /\ reps_map = <<>>
    /\ repo_partial_tags = <<>>
    /\ repo_resolved_tags = {}
    /\ mirror = {}
    /\ resolved_tags = {}
    /\ fileIdx = 0
    /\ actIdx = 0
    /\ tagIdx = 0
    /\ success = TRUE
    /\ stdout = <<>>
    /\ stderr = <<>>
    /\ outcome = "running"
    /\ retcode = <<>>
    /\ origDisk = disk
    /\ opened = {}
    /\ fetches = <<>>
    /\ inits = <<>>
    /\ found = <<>>
    /\ prev = [command |-> "none", outcome |-> "none", retcode |-> <<>>]

\* _load_yamls
Load ==
    /\ pc = "load"
    /\ LET paths == IF filepaths = <<>> THEN _iter_workflows ELSE filepaths
       IN  IF filepaths = <<>> /\ ~dirExists
           THEN /\ Raise("UserError", NoDirectory)
                /\ UNCHANGED content_map
           ELSE IF \E i \in 1..Len(paths) : paths[i] \notin DOMAIN disk
           THEN /\ Raise("FileNotFoundError", <<"No such file or directory">>)
                /\ UNCHANGED content_map
           ELSE /\ content_map' = LoadYamls(<<>>, paths, disk)
                /\ pc' = IF command = "check" THEN "check" ELSE "scan"
                /\ UNCHANGED <<outcome, retcode, stderr>>
    /\ UNCHANGED <<disk, dirExists, runNo, command, filepaths, reps_map,
                   repo_partial_tags, repo_resolved_tags, mirror,
                   resolved_tags, fileIdx, actIdx, tagIdx, success, stdout,
                   origDisk, opened, fetches, inits, found, prev>>

\* _check_gha_shas: one turn of the loop over content_map
CheckFile ==
    /\ pc = "check"
    /\ fileIdx < Len(content_map)
    /\ LET path == content_map[fileIdx + 1][1]
           content == YamlLoad(content_map[fileIdx + 1][2])
           scan == _find_missing_shas(path, content)
       IN  IF ~content.ok
           THEN /\ Raise("ParserError", <<"while parsing a flow mapping">>)
                /\ UNCHANGED <<fileIdx, success, found>>
           ELSE IF ~scan.ok
           THEN /\ Raise("UserError", scan.err)
                /\ UNCHANGED <<fileIdx, success, found>>
           ELSE /\ stderr' = stderr \o
                        [i \in 1..Len(scan.reps) |-> CheckLine(scan.reps[i])]
                /\ success' = (success /\ scan.reps = <<>>)
                /\ found' = found \o scan.reps
                /\ fileIdx' = fileIdx + 1
                /\ UNCHANGED <<pc, outcome, retcode>>
    /\ UNCHANGED <<disk, dirExists, runNo, command, filepaths, content_map,
                   reps_map, repo_partial_tags, repo_resolved_tags, mirror,
                   resolved_tags, actIdx, tagIdx, stdout, origDisk, opened,
                   fetches, inits, prev>>

\* _check_gha_shas: return success
CheckReturn ==
    /\ pc = "check"
    /\ fileIdx = Len(content_map)
    /\ Return(success)
    /\ UNCHANGED <<disk, dirExists, runNo, command, filepaths, content_map,
                   reps_map, repo_partial_tags, repo_resolved_tags, mirror,
                   resolved_tags, fileIdx, actIdx, tagIdx, success, stdout,
                   origDisk, opened, fetches, inits, found, prev>>

\* _enforce_gha_shas: one entry of reps_map
ScanFile ==
    /\ pc = "scan"
    /\ fileIdx < Len(content_map)
    /\ LET path == content_map[fileIdx + 1][1]
           content == YamlLoad(content_map[fileIdx + 1][2])
           scan == _find_missing_shas(path, content)
       IN  IF ~content.ok
           THEN /\ Raise("ParserError", <<"while parsing a flow mapping">>)
                /\ UNCHANGED <<fileIdx, reps_map, found>>
           ELSE IF ~scan.ok
           THEN /\ Raise("UserError", scan.err)
                /\ UNCHANGED <<fileIdx, reps_map, found>>
           ELSE /\ reps_map' = Append(reps_map, <<path, scan.reps>>)
                /\ found' = found \o scan.reps
                /\ fileIdx' = fileIdx + 1
                /\ UNCHANGED <<pc, outcome, retcode, stderr>>
    /\ UNCHANGED <<disk, dirExists, runNo, command, filepaths, content_map,
                   repo_partial_tags, repo_resolved_tags, mirror,
                   resolved_tags, actIdx, tagIdx, success, stdout, origDisk,
                   opened, fetches, inits, prev>>

\* _enforce_gha_shas: repo_partial_tags
GroupTags ==
    /\ pc = "scan"
    /\ fileIdx = Len(content_map)
    /\ repo_partial_tags' =
            Group(<<>>, Flatten([i \in 1..Len(reps_map) |-> reps_map[i][2]]))
    /\ pc' = IF repo_partial_tags' = <<>> THEN "write" ELSE "init_repo"
    /\ fileIdx' = 0
    /\ actIdx' = 0
    /\ UNCHANGED <<disk, dirExists, runNo, command, filepaths, content_map,
                   reps_map, repo_resolved_tags, mirror, resolved_tags,
                   tagIdx, success, stdout, stderr, outcome, retcode,
                   origDisk, opened, fetches, inits, found, prev>>

\* _resolve_tags: the temporary directory and init_repo_from_action
InitRepo ==
    /\ pc = "init_repo"
    /\ \E git_ok \in BOOLEAN :
        IF git_ok
        THEN /\ mirror' = {}
             /\ resolved_tags' = {}
             /\ tagIdx' = 0
             /\ inits' = Append(inits, repo_partial_tags[actIdx + 1][1])
             /\ pc' = "resolve_tag"
             /\ UNCHANGED <<outcome, retcode, stderr>>
        ELSE /\ Raise("UserError", GitFailed)
             /\ UNCHANGED <<mirror, resolved_tags, tagIdx, inits>>
    /\ UNCHANGED <<disk, dirExists, runNo, command, filepaths, content_map,
                   reps_map, repo_partial_tags, repo_resolved_tags, fileIdx,
                   actIdx, success, stdout, origDisk, opened, fetches, found,
                   prev>>

\* _resolve_tags: one turn of the loop over partial_tags (resolve_tag), and
\* after the last one the entry of repo_resolved_tags
ResolveStep ==
    /\ pc = "resolve_tag"
    /\ LET action == repo_partial_tags[actIdx + 1][1]
           versions == repo_partial_tags[actIdx + 1][2]
           version == versions[tagIdx + 1]
           url == _repo_url_from_action(action)
           local == FetchTags(mirror, url,
                              IF version.some THEN version.text ELSE <<>>)
           r == ResolveTag(local, version)
           entry == [action |-> action, version |-> version,
                     tag |-> r.tag, sha |-> r.sha]
       IN  \E git_ok \in BOOLEAN :
            IF ~(git_ok /\ Reachable(url))
            THEN /\ Raise("UserError", GitFailed)
                 /\ mirror' = {}
                 /\ UNCHANGED <<resolved_tags, tagIdx, actIdx, fetches,
                                repo_resolved_tags>>
            ELSE /\ fetches' = Append(fetches, <<action, version>>)
                 /\ IF ~r.ok
                    THEN /\ Raise("UserError", r.err)
                         /\ mirror' = {}
                         /\ UNCHANGED <<resolved_tags, tagIdx, actIdx,
                                        repo_resolved_tags>>
                    ELSE /\ resolved_tags' =
                                {e \in resolved_tags : e.version # version}
                                    \cup {entry}
                         /\ IF tagIdx + 1 < Len(versions)
                            THEN /\ tagIdx' = tagIdx + 1
                                 /\ mirror' = local
                                 /\ UNCHANGED <<pc, actIdx, repo_resolved_tags>>
                            ELSE /\ tagIdx' = 0
                                 /\ mirror' = {}
                                 /\ actIdx' = actIdx + 1
                                 /\ repo_resolved_tags' =
                                        {e \in repo_resolved_tags :
                                            e.action # action}
                                        \cup resolved_tags'
                                 /\ pc' = IF actIdx + 1 < Len(repo_partial_tags)
                                          THEN "init_repo" ELSE "write"
                         /\ UNCHANGED <<outcome, retcode, stderr>>
    /\ UNCHANGED <<disk, dirExists, runNo, command, filepaths, content_map,
                   reps_map, repo_partial_tags, fileIdx, success, stdout,
                   origDisk, opened, inits, found, prev>>

\* _enforce_gha_shas: one turn of the loop that writes the files back
WriteFile ==
    /\ pc = "write"
    /\ fileIdx < Len(reps_map)
    /\ LET path == reps_map[fileIdx + 1][1]
           reps == reps_map[fileIdx + 1][2]
           orig_lines == content_map[ContentOf(path)][2].lines
       IN  /\ disk' = [disk EXCEPT
                        ![path].lines = Rewrite(orig_lines, reps, repo_resolved_tags)]
           /\ opened' = opened \cup {path}
    /\ fileIdx' = fileIdx + 1
    /\ UNCHANGED <<dirExists, runNo, command, filepaths, pc, content_map,
                   reps_map, repo_partial_tags, repo_resolved_tags, mirror,
                   resolved_tags, actIdx, tagIdx, success, stdout, stderr,
                   outcome, retcode, origDisk, fetches, inits, found, prev>>

\* _enforce_gha_shas: the return value
EnforceReturn ==
    /\ pc = "write"
    /\ fileIdx = Len(reps_map)
    /\ Return(EnforceResult(reps_map))
    /\ UNCHANGED <<disk, dirExists, runNo, command, filepaths, content_map,
                   reps_map, repo_partial_tags, repo_resolved_tags, mirror,
                   resolved_tags, fileIdx, actIdx, tagIdx, success, stdout,
                   origDisk, opened, fetches, inits, found, prev>>

\* The user presses ^C while main runs
Interrupt ==
    /\ pc # "done"
    /\ Raise("KeyboardInterrupt", <<>>)
    /\ UNCHANGED <<disk, dirExists, runNo, command, filepaths, content_map,
                   reps_map, repo_partial_tags, repo_resolved_tags, mirror,
                   resolved_tags, fileIdx, actIdx, tagIdx, success, stdout,
                   origDisk, opened, fetches, inits, found, prev>>

\* main is run again with the same file arguments
StartRun ==
    /\ pc = "done"
    /\ runNo < MaxRuns
    /\ runNo' = runNo + 1
    /\ command' \in Commands
    /\ prev' = [command |-> command, outcome |-> outcome, retcode |-> retcode]
    /\ pc' = "load"
    /\ content_map' = <<>>
    /\ reps_map' = <<>>
    /\ repo_partial_tags' = <<>>
    /\ repo_resolved_tags' = {}
    /\ mirror' = {}
    /\ resolved_tags' = {}
    /\ fileIdx' = 0
    /\ actIdx' = 0
    /\ tagIdx' = 0
    /\ success' = TRUE
    /\ stdout' = <<>>
    /\ stderr' = <<>>
    /\ outcome' = "running"
    /\ retcode' = <<>>
    /\ origDisk' = disk
    /\ opened' = {}
    /\ fetches' = <<>>
    /\ inits' = <<>>
    /\ found' = <<>>
    /\ UNCHANGED <<disk, dirExists, filepaths>>

Next ==
    \/ Load
    \/ CheckFile
    \/ CheckReturn
    \/ ScanFile
    \/ GroupTags
    \/ InitRepo
    \/ ResolveStep
    \/ WriteFile
    \/ EnforceReturn
    \/ Interrupt
    \/ StartRun

Spec == Init /\ [][Next]_vars

(***************************************************************************)
(* Vocabulary of the properties, stated from the documents and the remote  *)
(* repositories and not from the scanner's or the resolver's results.      *)
(***************************************************************************)
LowerHex == {"0", "1", "2", "3", "4", "5", "6", "7", "8", "9",
             "a", "b", "c", "d", "e", "f"}

\* The text after the first "@" of a reference that has one
AfterAt(raw) == SubSeq(raw, IndexOf(raw, "@") + 1, Len(raw))

HasAt(raw) == \E i \in 1..Len(raw) : raw[i] = "@"

LocalOrContainer(raw) ==
    \/ (raw # <<>> /\ raw[1] \in {".", "/"})
    \/ (Len(raw) >= 9 /\ SubSeq(raw, 1, 9) = SubSeq(Docker, 1, 9))

\* A step that must be reported: a remote reference that is not pinned
Violation(step) ==
    /\ step.hasUses
    /\ ~LocalOrContainer(step.uses)
    /\ \/ ~HasAt(step.uses)
       \/ Len(AfterAt(step.uses)) # 40
       \/ \E i \in 1..Len(AfterAt(step.uses)) : AfterAt(step.uses)[i] \notin LowerHex

\* The document the run read from path when it started
StartDoc(path) == YamlLoad(ReadText(origDisk[path]))

\* <<path, job number, step number>> of every violation in a document
ViolationsIn(path) ==
    LET doc == StartDoc(path)
    IN  UNION {{<<path, j, i>> : i \in {n \in 1..Len(doc.jobs[j].steps) :
                    doc.jobs[j].hasSteps /\ Violation(doc.jobs[j].steps[n])}} :
               j \in 1..Len(doc.jobs)}

\* The paths whose scan has ended without an error in this run
ScannedPaths ==
    IF command = "enforce"
    THEN {reps_map[k][1] : k \in 1..Len(reps_map)}
    ELSE {content_map[k][1] : k \in 1..(IF pc \in {"check", "done"}
                                        THEN fileIdx ELSE 0)}

\* The paths the run has read
LoadedPaths == {content_map[k][1] : k \in 1..Len(content_map)}

\* The remote tags whose name starts with the requested version
Matching(action, version) ==
    {t \in Remotes(_repo_url_from_action(action)) :
        StartsWith(t.name, IF version.some THEN version.text ELSE <<>>)}

\* The remote has a tag named exactly the requested version
ExactTag(action, version) ==
    /\ version.some
    /\ version.text # <<>>
    /\ \E t \in Remotes(_repo_url_from_action(action)) : t.name = version.text

\* The requested version names nothing of the remote: no tag starts with it
\* and it is not the id of an object the tags bring along
Unresolvable(action, version) ==
    /\ Matching(action, version) = {}
    /\ RevParse(Remotes(_repo_url_from_action(action)),
                IF version.some THEN version.text ELSE <<>>)[1] # 0

\* The version the resolver is working on, if any
Current ==
    IF command = "enforce" /\ actIdx < Len(repo_partial_tags)
    THEN <<[action |-> repo_partial_tags[actIdx + 1][1],
            version |-> repo_partial_tags[actIdx + 1][2][tagIdx + 1]]>>
    ELSE <<>>

LastError == IF stderr = <<>> THEN <<>> ELSE stderr[Len(stderr)]

\* Every pair the run has resolved so far
Resolved == repo_resolved_tags \cup resolved_tags

(***************************************************************************)
(* C1: in enforce no file is written before every resolution of the batch  *)
(* has succeeded; when a resolution fails (no tag matches a requested      *)
(* version, or a git command exits non-zero) the run ends with exit code 1 *)
(* and every file has the content it had when the run started.             *)
(***************************************************************************)
C1_NoWriteUnlessAllResolved ==
    /\ (command = "enforce" /\ opened # {}) =>
            /\ actIdx = Len(repo_partial_tags)
            /\ \A k \in 1..Len(found) :
                \E e \in repo_resolved_tags :
                    /\ e.action = found[k].action_version.path
                    /\ e.version = found[k].action_version.version
    /\ (/\ pc = "done"
        /\ command = "enforce"
        /\ outcome # "KeyboardInterrupt"
        /\ content_map # <<>>
        /\ Len(reps_map) = Len(content_map)
        /\ \E k \in 1..Len(found) :
                Unresolvable(found[k].action_version.path,
                             found[k].action_version.version))
        => (retcode = <<1>> /\ disk = origDisk /\ opened = {})
    /\ (/\ pc = "done"
        /\ command = "enforce"
        /\ Len(LastError) >= 2
        /\ LastError[2] \in {"could not find any tag matching ",
                             "failed to run git command: "})
        => (retcode = <<1>> /\ disk = origDisk /\ opened = {})

\* Some versions were resolved, then no tag matched v9: nothing was written
C1_Witness ==
    /\ pc = "done"
    /\ command = "enforce"
    /\ Len(fetches) >= 3
    /\ LastError = <<"Error: ", "could not find any tag matching ", "v", "9">>
    /\ retcode = <<1>>
    /\ disk = origDisk

(***************************************************************************)
(* C2: the scanner flags a step if and only if it has a `uses` reference   *)
(* that does not begin with ".", "/" or "docker://" and whose version (the *)
(* text after the first "@") is absent or is not exactly 40 characters all *)
(* drawn from 0-9a-f; local and container references are never resolved.   *)
(***************************************************************************)
C2_FlaggedIffUnpinnedRemote ==
    /\ \A path \in ScannedPaths :
        LET doc == StartDoc(path)
            expected == {<<path, doc.jobs[t[2]].name, t[3] - 1>> :
                            t \in ViolationsIn(path)}
            flagged == {<<found[k].path, found[k].job_name, found[k].step_index>> :
                            k \in {n \in 1..Len(found) : found[n].path = path}}
        IN  expected = flagged
    /\ \A k \in 1..Len(fetches) : ~LocalOrContainer(fetches[k][1])
    /\ \A k \in 1..Len(inits) : ~LocalOrContainer(inits[k])

\* A file of near-miss versions and a file of local, container and pinned
\* references have both been scanned: five occurrences, all of the first
C2_Witness ==
    /\ pc = "done"
    /\ command = "check"
    /\ origDisk[FileA] = DocHex
    /\ origDisk[FileB] = DocPinned
    /\ ScannedPaths = {FileA, FileB}
    /\ Len(found) = 5
    /\ \E k \in 1..Len(found) :
            found[k].action_version.version.text = Rep("A", 40)

(***************************************************************************)
(* C3 (as amended): a check run that ends without an error exits 0 if and  *)
(* only if no violation is found in any scanned file and exits 1           *)
(* otherwise; it prints to standard error exactly one line per violation,  *)
(* `in workflow file <path>: in job <jobName>: in step #<n>: <raw          *)
(* reference>` with n the step's 0-based index plus one; and every check   *)
(* run prints nothing to standard output and modifies no file.             *)
(***************************************************************************)
\* The line the claim asks for, from the document's own text
ReportLine(path, job, i) ==
    <<"in workflow file ", path, ": in job ", job.name, ": in step #">>
        \o IntToStr(i) \o <<": ">> \o job.steps[i].uses

\* One line per violation of the files in content_map[from..], in order
RECURSIVE ReportFrom(_)
ReportFrom(k) ==
    IF k > Len(content_map) THEN <<>>
    ELSE LET path == content_map[k][1]
             doc == StartDoc(path)
             bad == ViolationsIn(path)
         IN  Flatten([j \in 1..Len(doc.jobs) |->
                Flatten([i \in 1..Len(doc.jobs[j].steps) |->
                    IF <<path, j, i>> \in bad
                    THEN <<ReportLine(path, doc.jobs[j], i)>> ELSE <<>>])])
             \o ReportFrom(k + 1)

C3_CheckReport ==
    /\ command = "check" => (stdout = <<>> /\ disk = origDisk /\ opened = {})
    /\ (pc = "done" /\ command = "check" /\ outcome = "returned") =>
        /\ retcode \in {<<0>>, <<1>>}
        /\ retcode = <<0>> <=> (\A path \in LoadedPaths : ViolationsIn(path) = {})
        /\ stderr = ReportFrom(1)

\* The claim as it was stated: whenever check exits
C3_Original ==
    (pc = "done" /\ command = "check" /\ retcode # <<>>) =>
        /\ stdout = <<>>
        /\ disk = origDisk
        /\ retcode \in {<<0>>, <<1>>}
        /\ retcode = <<0>> <=> (\A path \in ScannedPaths : ViolationsIn(path) = {})
        /\ stderr = ReportFrom(1)

\* check has reported the violations of two files and returned 1
C3_Witness ==
    /\ pc = "done"
    /\ command = "check"
    /\ outcome = "returned"
    /\ retcode = <<1>>
    /\ Cardinality(LoadedPaths) = 2
    /\ Len(stderr) >= 6
    /\ stderr = ReportFrom(1)

(***************************************************************************)
(* C4: an enforce run that completes without error exits 1 if at least one *)
(* violation existed in any scanned file at the start of the run (though   *)
(* all of them are rewritten on disk by then) and exits 0 if and only if   *)
(* every scanned file had zero violations before rewriting.                *)
(***************************************************************************)
C4_EnforceExitCode ==
    (pc = "done" /\ command = "enforce" /\ outcome = "returned") =>
        /\ retcode \in {<<0>>, <<1>>}
        /\ retcode = <<0>> <=> (\A path \in LoadedPaths : ViolationsIn(path) = {})

\* enforce rewrote the violations it found and returned 1
C4_Witness ==
    /\ pc = "done"
    /\ command = "enforce"
    /\ outcome = "returned"
    /\ retcode = <<1>>
    /\ \E path \in LoadedPaths : ViolationsIn(path) # {}
    /\ disk # origDisk

(***************************************************************************)
(* C5: exact-tag short-circuit.  Whenever the requested version is         *)
(* non-empty and the remote has a tag of exactly that name, the resolver   *)
(* returns (requested version, commit id of that tag), never a higher tag, *)
(* whatever other tags share the name as a prefix and whatever was         *)
(* resolved earlier against the same local repository.                     *)
(***************************************************************************)
C5_ExactTagWins ==
    \A e \in Resolved :
        ExactTag(e.action, e.version) =>
            /\ e.tag = e.version.text
            /\ \E t \in Remotes(_repo_url_from_action(e.action)) :
                    t.name = e.version.text /\ t.commit = e.sha

(***************************************************************************)
(* C6: prefix resolution.  When no tag is named exactly the requested      *)
(* version (or the version is none or empty), the resolver returns the tag *)
(* highest in version order among the remote tags whose name starts with   *)
(* the requested version, with that tag's commit id (v1 -> v1.1.1,         *)
(* v1.0 -> v1.0.0, v2 -> v2.0.0); it fails with `could not find any tag    *)
(* matching <requested version>` if and only if no tag has that prefix.    *)
(***************************************************************************)
C6_HighestMatchingTag ==
    /\ \A e \in Resolved :
        ~ExactTag(e.action, e.version) =>
            /\ \E t \in Matching(e.action, e.version) :
                    t.name = e.tag /\ t.commit = e.sha
            /\ \A u \in Matching(e.action, e.version) :
                    VersionCmp(u.name, e.tag) <= 0
    /\ \A e \in Resolved :
        /\ (e.action = ActionA /\ e.version = Version(v1)) => e.tag = v1_1_1
        /\ (e.action = ActionA /\ e.version = Version(v1_0)) => e.tag = v1_0_0
        /\ (e.action = ActionA /\ e.version = Version(v2)) => e.tag = v2_0_0
    /\ (pc = "done" /\ Len(LastError) >= 2
        /\ LastError[2] = "could not find any tag matching ") =>
            /\ Current # <<>>
            /\ Matching(Current[1].action, Current[1].version) = {}
            /\ LastError = <<"Error: ", "could not find any tag matching ">>
                    \o (IF Current[1].version.some
                        THEN Current[1].version.text ELSE <<>>)
    /\ (pc = "done" /\ command = "enforce" /\ outcome = "returned") =>
            \A k \in 1..Len(found) :
                Matching(found[k].action_version.path,
                         found[k].action_version.version) # {}

(***************************************************************************)
(* C7: a job without a `steps` key fails the whole run, check or enforce,  *)
(* with exit code 1 and the message `Error: cannot process job             *)
(* (name=<jobName>) in <path>: job has no steps`; the job is not skipped   *)
(* and no job is processed after it.                                       *)
(***************************************************************************)
\* The numbers of the jobs of a document that have no steps key
JobsWithoutSteps(path) ==
    {j \in 1..Len(StartDoc(path).jobs) : ~StartDoc(path).jobs[j].hasSteps}

C7_MissingStepsFails ==
    /\ \A path \in ScannedPaths : JobsWithoutSteps(path) = {}
    /\ \A k \in 1..Len(found) :
            \A j \in JobsWithoutSteps(found[k].path) :
                \E i \in 1..(j - 1) :
                    StartDoc(found[k].path).jobs[i].name = found[k].job_name
    /\ (/\ pc = "done"
        /\ outcome # "KeyboardInterrupt"
        /\ content_map # <<>>
        /\ JobsWithoutSteps(content_map[1][1]) # {})
        => /\ retcode = <<1>>
           /\ \E j \in JobsWithoutSteps(content_map[1][1]) :
                LastError = <<"Error: ", "cannot process job (name=",
                              StartDoc(content_map[1][1]).jobs[j].name,
                              ") in ", content_map[1][1],
                              ": job has no steps">>

(***************************************************************************)
(* C8: every line enforce rewrites is the original line's characters       *)
(* before the recorded column, then `repositoryPath@commitId  # fullTag`,  *)
(* then the original line's terminator (nothing when the line has none);   *)
(* every line without an occurrence is written back unchanged.             *)
(***************************************************************************)
\* The terminator a line of a file ends with
Terminator(line) ==
    IF Len(line) >= 2 /\ SubSeq(line, Len(line) - 1, Len(line)) = <<"\r", "\n">>
    THEN <<"\r", "\n">>
    ELSE IF line # <<>> /\ line[Len(line)] = "\n" THEN <<"\n">>
    ELSE <<>>

C8_RewrittenLines ==
    \A path \in opened :
        \A l \in 1..Len(origDisk[path].lines) :
            LET orig == origDisk[path].lines[l]
                at == {k \in 1..Len(found) :
                        found[k].path = path /\ found[k].location.line = l - 1}
            IN  IF at = {}
                THEN disk[path].lines[l] = orig
                ELSE \A k \in at :
                        \E e \in repo_resolved_tags :
                            /\ e.action = found[k].action_version.path
                            /\ e.version = found[k].action_version.version
                            /\ disk[path].lines[l] =
                                SubSeq(orig, 1, found[k].location.col)
                                    \o found[k].action_version.path \o <<"@">>
                                    \o e.sha \o <<" ", " ", "#", " ">> \o e.tag
                                    \o Terminator(orig)

(***************************************************************************)
(* C9: idempotence.  After an enforce run that completed without error, a  *)
(* second enforce run on the same files finds zero occurrences, leaves     *)
(* every file's content identical and exits 0.                             *)
(***************************************************************************)
C9_EnforceTwice ==
    (/\ pc = "done"
     /\ command = "enforce"
     /\ prev.command = "enforce"
     /\ prev.outcome = "returned"
     /\ outcome # "KeyboardInterrupt")
        => /\ found = <<>>
           /\ disk = origDisk
           /\ retcode = <<0>>

(***************************************************************************)
(* C10: the exit code of main follows from how the run ends: a UserError   *)
(* prints `Error: <message>` and yields 1, any other unexpected exception  *)
(* yields 2 with a please-report-this-bug message and a traceback, and a   *)
(* keyboard interruption yields 130.                                       *)
(***************************************************************************)
C10_ExitCodes ==
    pc = "done" =>
        /\ outcome = "UserError" =>
                (retcode = <<1>> /\ LastError # <<>> /\ LastError[1] = "Error: ")
        /\ outcome = "KeyboardInterrupt" => retcode = <<130>>
        /\ outcome \notin {"returned", "UserError", "KeyboardInterrupt"} =>
                /\ retcode = <<2>>
                /\ \E i \in 1..Len(LastError) :
                        LastError[i] =
                            "Please report this bug with the following traceback:"


(***************************************************************************)
(* C11: deduplication.  In an enforce run each distinct pair (repository   *)
(* path, requested version or none) triggers at most one remote tag fetch  *)
(* and one tag resolution, however many steps and files reference it.      *)
(***************************************************************************)
C11_OneFetchPerPair ==
    command = "enforce" =>
        \A i, j \in 1..Len(fetches) : fetches[i] = fetches[j] => i = j


(***************************************************************************)
(* C12: in enforce a document in which the scan found no occurrence is     *)
(* never opened for writing; only documents with at least one occurrence   *)
(* are written back.                                                       *)
(***************************************************************************)
C12_OnlyOccurrencesWritten ==
    command = "enforce" =>
        \A path \in opened :
            \E k \in 1..Len(reps_map) :
                reps_map[k][1] = path /\ reps_map[k][2] # <<>>


\* A line of the check report
IsViolationLine(line) == line # <<>> /\ line[1] = "in workflow file "

(***************************************************************************)
(* C13: a scanning or classification failure aborts the run with no        *)
(* partial results.  When a check over several files ends because the     *)
(* scan of one file failed (for instance a document that is neither a      *)
(* workflow nor an action), no violation line of any file of that run has  *)
(* been printed before the error.                                          *)
(***************************************************************************)
C13_NoPartialReport ==
    (/\ pc = "done"
     /\ command = "check"
     /\ outcome \in {"UserError", "ParserError"}
     /\ content_map # <<>>)
        => \A k \in 1..Len(stderr) : ~IsViolationLine(stderr[k])

====
